---- MODULE Spec2Model ----
(***************************************************************************)
(* Consensus (de)serialization of the Dash special-transaction payloads   *)
(* of rust-dashcore: QuorumFinalizationCommitment, QuorumCommitmentPayload,*)
(* AssetLockPayload, ProviderUpdateServicePayload and InstantLock.         *)
(*                                                                         *)
(* A byte is an integer in 0..255, a byte stream a sequence of bytes.  A   *)
(* reader is the sequence of bytes not yet consumed.  Every decoder        *)
(* returns either Ok(value, rest) or Err(kind); the `?` operator of the    *)
(* source is the propagation of Err.  Every encoder returns the bytes it   *)
(* wrote into its writer together with the usize it returns, or the error  *)
(* of the writer.                                                          *)
(*                                                                         *)
(* Integers wider than 31 bits (u64, u128) are kept as their little-endian *)
(* byte limbs, so that no arithmetic leaves the range of TLC's integers.   *)
(***************************************************************************)
EXTENDS Integers, Sequences, FiniteSets, TLC

\* ------------------------------------------------------------------------
\* Bounds of the model
\* ------------------------------------------------------------------------

\* longest boolean sequence drawn for signers / valid_members
MaxBits == 17
\* longest boolean sequence packed on its own
MaxPacked == 256

\* ------------------------------------------------------------------------
\* Program constants
\* ------------------------------------------------------------------------

\* width of QuorumHash, QuorumVVecHash, Txid, InputsHash, cyclehash
HASH_LEN == 32
\* width of BLSPublicKey
BLS_PK_LEN == 48
\* width of BLSSignature and of InstantLock.signature
BLS_SIG_LEN == 96
\* consensus::encode::MAX_VEC_SIZE, the largest declared allocation accepted
MAX_VEC_SIZE == 4000000
\* modulus of the stand-in digest function
HashModulus == 46337
\* a count of 2^31 or more is kept as 2^31 - 1, which is above every
\* configured maximum
Saturated == 2 * 1073741823 + 1

\* ------------------------------------------------------------------------
\* State
\* ------------------------------------------------------------------------

VARIABLES
    big_endian_target,  \* cfg(target_endian = "big") of the build
    writer,             \* the io::Write the encoder is handed
    tag,                \* the payload type the caller selects the codec by
    tx_type,            \* the special-transaction type the envelope declared
    val,                \* the in-memory value handed to the encoder
    wire,               \* the byte stream handed to the decoder
    out,                \* what consensus_encode wrote and returned
    dec,                \* what consensus_decode returned
    sz,                 \* what size() returned
    digest,             \* what base_payload_hash() returned
    op                  \* the last operation applied

vars == <<big_endian_target, writer, tag, tx_type, val, wire, out, dec, sz, digest, op>>

\* ------------------------------------------------------------------------
\* Results
\* ------------------------------------------------------------------------

\* alloc: the number of elements a decoder reserved storage for
Ok(v, rest) == [ok |-> TRUE, val |-> v, rest |-> rest, err |-> "none", alloc |-> 0]
Err(kind) == [ok |-> FALSE, val |-> <<>>, rest |-> <<>>, err |-> kind, alloc |-> 0]

Min(a, b) == IF a < b THEN a ELSE b
Max(a, b) == IF a < b THEN b ELSE a

\* F applied to the value of e, which is computed once
Let(e, F(_)) == CHOOSE y \in {F(x) : x \in {e}} : TRUE

\* One step of a decoder, `let name = F(r)?;`: acc holds the fields read so
\* far and what is left of the stream.  An earlier error is returned as it
\* is; otherwise F reads the field from acc.rest (it may look at the fields
\* already read) and its error, or the record extended by the field, is the
\* result.
Field(acc, name, F(_)) ==
    Let(acc, LAMBDA a :
        IF ~a.ok THEN a
        ELSE Let(F(a), LAMBDA f :
            IF ~f.ok THEN [f EXCEPT !.alloc = Max(a.alloc, f.alloc)]
            ELSE [ok |-> TRUE, val |-> a.val @@ (name :> f.val), rest |-> f.rest,
                  err |-> "none",
                  alloc |-> Max(a.alloc, f.alloc)]))

\* the start of a decoder of the payload type t on the stream r
Start(t, r) == Ok([type |-> t], r)

None == <<>>
Some(x) == <<x>>
is_some(o) == Len(o) = 1

RECURSIVE Pow2(_)
Pow2(n) == IF n = 0 THEN 1 ELSE 2 * Pow2(n - 1)

Drop(s, n) == SubSeq(s, n + 1, Len(s))
Take(s, n) == SubSeq(s, 1, Min(n, Len(s)))

\* ------------------------------------------------------------------------
\* Primitive codecs (consensus::encode)
\* ------------------------------------------------------------------------

\* Read::read_exact: n bytes or an i/o error, never fewer
read_exact(r, n) ==
    IF Len(r) < n THEN Err("Io") ELSE Ok(SubSeq(r, 1, n), Drop(r, n))

u8_consensus_encode(x) == <<x>>

u8_consensus_decode(r) ==
    Let(read_exact(r, 1), LAMBDA b : IF ~b.ok THEN b ELSE Ok(b.val[1], b.rest))

u16_consensus_encode(x) == <<x % 256, x \div 256>>

u16_consensus_decode(r) ==
    Let(read_exact(r, 2), LAMBDA b :
        IF ~b.ok THEN b ELSE Ok(b.val[1] + 256 * b.val[2], b.rest))

i16_consensus_encode(x) == u16_consensus_encode(IF x < 0 THEN x + 65536 ELSE x)

i16_consensus_decode(r) ==
    Let(u16_consensus_decode(r), LAMBDA u :
        IF ~u.ok THEN u
        ELSE Ok(IF u.val >= 32768 THEN u.val - 65536 ELSE u.val, u.rest))

u32_consensus_encode(x) ==
    << x % 256, (x \div 256) % 256, (x \div 65536) % 256, x \div 16777216 >>

\* little-endian value of four bytes, saturated above 31 bits
le32(b) ==
    IF b[4] >= 128 THEN Saturated
    ELSE b[1] + 256 * b[2] + 65536 * b[3] + 16777216 * b[4]

u32_consensus_decode(r) ==
    Let(read_exact(r, 4), LAMBDA b : IF ~b.ok THEN b ELSE Ok(le32(b.val), b.rest))

\* fixed-width byte arrays and hashes: the raw bytes, no length prefix
array_consensus_encode(a) == a

array_consensus_decode(r, n) == read_exact(r, n)

\* wrapping 16-bit byte swap
swap_bytes(x) == (x % 256) * 256 + (x \div 256)

\* u16::from_be: the identity on a big-endian target, a byte swap otherwise
u16_from_be(x) == IF big_endian_target THEN x ELSE swap_bytes(x)

\* u64 and u128 are kept as their little-endian limbs, which are the bytes
\* written
wide_consensus_encode(limbs) == limbs

wide_consensus_decode(r, n) == read_exact(r, n)

\* ---- compact-size integers ----

compact_size_len(value) ==
    IF value < 253 THEN 1 ELSE IF value <= 65535 THEN 3 ELSE 5

\* a writer of the four-byte form for every count from 0xFD on
write_compact_size_wide(value) ==
    IF value < 253 THEN <<value>>
    ELSE <<254>> \o u32_consensus_encode(value)

write_compact_size(value) ==
    IF value < 253 THEN <<value>>
    ELSE IF value <= 65535 THEN <<253>> \o u16_consensus_encode(value)
    ELSE <<254>> \o u32_consensus_encode(value)

read_compact_size(r) ==
    Let(read_exact(r, 1), LAMBDA m :
        IF ~m.ok THEN m
        ELSE IF m.val[1] = 253 THEN u16_consensus_decode(m.rest)
        ELSE IF m.val[1] = 254 THEN u32_consensus_decode(m.rest)
        ELSE IF m.val[1] = 255 THEN
            Let(read_exact(m.rest, 8), LAMBDA b :
                IF ~b.ok THEN b
                ELSE Ok(IF \E i \in 5..8 : b.val[i] # 0 THEN Saturated
                        ELSE le32(b.val), b.rest))
        ELSE Ok(m.val[1], m.rest))

\* ---- fixed bitsets ----

\* number of bytes holding `count` bits
fixed_bitset_len(bits, count) == (count + 7) \div 8

\* the byte at 1-based index j of the packing of the first `size` bits
PackedByte(bits, size, j) ==
    LET bit(p) == LET i == (j - 1) * 8 + p + 1 IN
                  IF i <= Min(size, Len(bits)) /\ bits[i] THEN Pow2(p) ELSE 0
    IN bit(0) + bit(1) + bit(2) + bit(3) + bit(4) + bit(5) + bit(6) + bit(7)

write_fixed_bitset(bits, size) ==
    [j \in 1..((size + 7) \div 8) |-> PackedByte(bits, size, j)]

\* a bitset reader that reserves storage for any declared count
read_fixed_bitset_unbounded(r, size) ==
    Let(read_exact(r, size \div 8 + (IF size % 8 = 0 THEN 0 ELSE 1)), LAMBDA b :
        IF ~b.ok THEN [b EXCEPT !.alloc = size]
        ELSE [Ok([i \in 1..size |->
                    (b.val[((i - 1) \div 8) + 1] \div Pow2((i - 1) % 8)) % 2 = 1],
                 b.rest) EXCEPT !.alloc = size])

\* a bitset reader that takes the first element from the highest bit
read_fixed_bitset_msb_first(r, size) ==
    IF size > MAX_VEC_SIZE THEN Err("OversizedVectorAllocation")
    ELSE Let(read_exact(r, (size + 7) \div 8), LAMBDA b :
         IF ~b.ok THEN [b EXCEPT !.alloc = size]
         ELSE [Ok([i \in 1..size |->
                     (b.val[((i - 1) \div 8) + 1] \div Pow2(7 - ((i - 1) % 8))) % 2 = 1],
                  b.rest) EXCEPT !.alloc = size])

\* the result carries the number of elements storage was reserved for
read_fixed_bitset(r, size) ==
    IF size > MAX_VEC_SIZE THEN Err("OversizedVectorAllocation")
    ELSE Let(read_exact(r, (size + 7) \div 8), LAMBDA b :
         IF ~b.ok THEN [b EXCEPT !.alloc = size]
         ELSE [Ok([i \in 1..size |->
                     (b.val[((i - 1) \div 8) + 1] \div Pow2((i - 1) % 8)) % 2 = 1],
                  b.rest) EXCEPT !.alloc = size])

\* ------------------------------------------------------------------------
\* QuorumFinalizationCommitment
\* ------------------------------------------------------------------------

\* The writer is a Vec<u8>, which accepts every write, or a &mut [u8] with
\* room for `room` bytes, whose write_all stores what fits and then fails
\* with ErrorKind::WriteZero.
VecWriter == [limited |-> FALSE, room |-> 0]
SliceWriter(n) == [limited |-> TRUE, room |-> n]

\* what the writer holds after it was handed the bytes b
Accepted(b) == IF writer.limited THEN Take(b, writer.room) ELSE b

\* An encoder's output so far: Ok(len) with the bytes written and the usize
\* accumulated, or the io::Error met with the bytes in the writer by then.
\* A failed encoder returns no count.
Written(bytes) ==
    Let(bytes, LAMBDA b : [ok |-> TRUE, bytes |-> b, len |-> Len(b), err |-> "none"])
WriteErr(bytes, kind) == [ok |-> FALSE, bytes |-> bytes, err |-> kind]

\* `len = w?;` in place of `len += w?;`: the count of the last field alone
Emit_overwriting(acc, w) ==
    Let(<<acc, w>>, LAMBDA p :
        IF ~p[1].ok THEN p[1]
        ELSE Let(p[1].bytes \o p[2].bytes, LAMBDA b :
             IF ~p[2].ok THEN WriteErr(Accepted(b), p[2].err)
             ELSE IF writer.limited /\ Len(b) > writer.room
                  THEN WriteErr(Accepted(b), "WriteZero")
             ELSE [ok |-> TRUE, bytes |-> b, len |-> p[2].len, err |-> "none"]))

\* `len += w?;` after acc: an earlier error is returned as it is; the
\* error of w, or the writer's refusal of its bytes, is returned by `?`
Emit(acc, w) ==
    Let(<<acc, w>>, LAMBDA p :
        IF ~p[1].ok THEN p[1]
        ELSE Let(p[1].bytes \o p[2].bytes, LAMBDA b :
             IF ~p[2].ok THEN WriteErr(Accepted(b), p[2].err)
             ELSE IF writer.limited /\ Len(b) > writer.room
                  THEN WriteErr(Accepted(b), "WriteZero")
             ELSE [ok |-> TRUE, bytes |-> b, len |-> p[1].len + p[2].len,
                   err |-> "none"]))
NothingWritten == [ok |-> TRUE, bytes |-> <<>>, len |-> 0, err |-> "none"]

QFC_size(v) ==
    2 + 1 + HASH_LEN + BLS_PK_LEN + HASH_LEN + BLS_SIG_LEN + BLS_SIG_LEN
    + compact_size_len(Len(v.signers))
    + fixed_bitset_len(v.signers, Len(v.signers))
    + compact_size_len(Len(v.valid_members))
    + fixed_bitset_len(v.valid_members, Len(v.signers))
    + (IF v.version = 2 \/ v.version = 4 THEN 2 ELSE 0)

\* an encoder that refuses a version 2 or 4 commitment without an index
QFC_encode_index_strict(v) ==
    IF v.version = 2 \/ v.version = 4
    THEN IF is_some(v.quorum_index)
         THEN Written(i16_consensus_encode(v.quorum_index[1]))
         ELSE WriteErr(<<>>, "InvalidData")
    ELSE NothingWritten

\* an encoder that leaves the index out whatever the version
QFC_encode_index_never(v) == NothingWritten

\* the optional index as consensus_encode writes it
QFC_encode_index(v) ==
    IF is_some(v.quorum_index) /\ (v.version = 2 \/ v.version = 4)
    THEN Written(i16_consensus_encode(v.quorum_index[1]))
    ELSE NothingWritten

\* an encoder that prefixes valid_members with the count of signers
QFC_consensus_encode_signers_count(v) ==
    LET w1 == Emit(NothingWritten, Written(u16_consensus_encode(v.version)))
        w2 == Emit(w1, Written(u8_consensus_encode(v.llmq_type)))
        w3 == Emit(w2, Written(array_consensus_encode(v.quorum_hash)))
        w4 == Emit(w3, QFC_encode_index(v))
        w5 == Emit(w4, Written(write_compact_size(Len(v.signers))))
        w6 == Emit(w5, Written(write_fixed_bitset(v.signers, Len(v.signers))))
        w7 == Emit(w6, Written(write_compact_size(Len(v.signers))))
        w8 == Emit(w7, Written(write_fixed_bitset(v.valid_members, Len(v.valid_members))))
        w9 == Emit(w8, Written(array_consensus_encode(v.quorum_public_key)))
        w10 == Emit(w9, Written(array_consensus_encode(v.quorum_vvec_hash)))
        w11 == Emit(w10, Written(array_consensus_encode(v.quorum_sig)))
    IN Emit(w11, Written(array_consensus_encode(v.sig)))

QFC_consensus_encode(v) ==
    LET w1 == Emit(NothingWritten, Written(u16_consensus_encode(v.version)))
        w2 == Emit(w1, Written(u8_consensus_encode(v.llmq_type)))
        w3 == Emit(w2, Written(array_consensus_encode(v.quorum_hash)))
        w4 == Emit(w3, QFC_encode_index(v))
        w5 == Emit(w4, Written(write_compact_size(Len(v.signers))))
        w6 == Emit(w5, Written(write_fixed_bitset(v.signers, Len(v.signers))))
        w7 == Emit(w6, Written(write_compact_size(Len(v.valid_members))))
        w8 == Emit(w7, Written(write_fixed_bitset(v.valid_members, Len(v.valid_members))))
        w9 == Emit(w8, Written(array_consensus_encode(v.quorum_public_key)))
        w10 == Emit(w9, Written(array_consensus_encode(v.quorum_vvec_hash)))
        w11 == Emit(w10, Written(array_consensus_encode(v.quorum_sig)))
    IN Emit(w11, Written(array_consensus_encode(v.sig)))

\* a bitset as lines 73-74 and 75-76 write it: the compact-size count of
\* its elements, then the packed bits
QFC_encode_bitset(bits) ==
    LET w1 == Emit(NothingWritten, Written(write_compact_size(Len(bits))))
    IN Emit(w1, Written(write_fixed_bitset(bits, Len(bits))))

\* the two terms size() adds for a bitset, as lines 51-52 compute them
QFC_bitset_size(bits) ==
    compact_size_len(Len(bits)) + fixed_bitset_len(bits, Len(bits))

\* an index read for version 2 alone
QFC_decode_index_v2_only(version, r) ==
    IF version = 2
    THEN Let(i16_consensus_decode(r), LAMBDA i :
             IF ~i.ok THEN i ELSE Ok(Some(i.val), i.rest))
    ELSE Ok(None, r)

\* an index read whatever the version
QFC_decode_index_always(version, r) ==
    Let(i16_consensus_decode(r), LAMBDA i :
        IF ~i.ok THEN i ELSE Ok(Some(i.val), i.rest))

\* the optional index as consensus_decode reads it, given the version read
QFC_decode_index(version, r) ==
    IF version = 2 \/ version = 4
    THEN Let(i16_consensus_decode(r), LAMBDA i :
             IF ~i.ok THEN i ELSE Ok(Some(i.val), i.rest))
    ELSE Ok(None, r)

\* read_compact_size followed by read_fixed_bitset of the count read
QFC_decode_bitset(r) ==
    Let(read_compact_size(r), LAMBDA count :
        IF ~count.ok THEN count ELSE read_fixed_bitset(count.rest, count.val))

QFC_consensus_decode(r) ==
    LET f1 == Field(Start("QFC", r), "version", LAMBDA a : u16_consensus_decode(a.rest))
        f2 == Field(f1, "llmq_type", LAMBDA a : u8_consensus_decode(a.rest))
        f3 == Field(f2, "quorum_hash", LAMBDA a : array_consensus_decode(a.rest, HASH_LEN))
        f4 == Field(f3, "quorum_index", LAMBDA a : QFC_decode_index(a.val.version, a.rest))
        f5 == Field(f4, "signers", LAMBDA a : QFC_decode_bitset(a.rest))
        f6 == Field(f5, "valid_members", LAMBDA a : QFC_decode_bitset(a.rest))
        f7 == Field(f6, "quorum_public_key",
                    LAMBDA a : array_consensus_decode(a.rest, BLS_PK_LEN))
        f8 == Field(f7, "quorum_vvec_hash", LAMBDA a : array_consensus_decode(a.rest, HASH_LEN))
        f9 == Field(f8, "quorum_sig", LAMBDA a : array_consensus_decode(a.rest, BLS_SIG_LEN))
    IN Field(f9, "sig", LAMBDA a : array_consensus_decode(a.rest, BLS_SIG_LEN))

\* ------------------------------------------------------------------------
\* QuorumCommitmentPayload
\* ------------------------------------------------------------------------

QCP_size(v) == 2 + 4 + QFC_size(v.finalization_commitment)

QCP_consensus_encode(v) ==
    LET w1 == Emit(NothingWritten, Written(u16_consensus_encode(v.version)))
        w2 == Emit(w1, Written(u32_consensus_encode(v.height)))
    IN Emit(w2, QFC_consensus_encode(v.finalization_commitment))

QCP_consensus_decode(r) ==
    LET f1 == Field(Start("QCP", r), "version", LAMBDA a : u16_consensus_decode(a.rest))
        f2 == Field(f1, "height", LAMBDA a : u32_consensus_decode(a.rest))
    IN Field(f2, "finalization_commitment", LAMBDA a : QFC_consensus_decode(a.rest))

\* ------------------------------------------------------------------------
\* Scripts, outputs, outpoints and their vectors
\* ------------------------------------------------------------------------

\* VarInt::consensus_decode, the count reader of Vec<T> and Script: the
\* compact size, refused (NonMinimalVarInt) in a form wider than its value
\* needs
VarInt_consensus_decode(r) ==
    Let(read_exact(r, 1), LAMBDA m :
        IF ~m.ok THEN m
        ELSE IF m.val[1] = 253 THEN
            Let(u16_consensus_decode(m.rest), LAMBDA x :
                IF x.ok /\ x.val < 253 THEN Err("NonMinimalVarInt") ELSE x)
        ELSE IF m.val[1] = 254 THEN
            Let(u32_consensus_decode(m.rest), LAMBDA x :
                IF x.ok /\ x.val < 65536 THEN Err("NonMinimalVarInt") ELSE x)
        ELSE IF m.val[1] = 255 THEN
            Let(read_exact(m.rest, 8), LAMBDA b :
                IF ~b.ok THEN b
                ELSE IF \A i \in 5..8 : b.val[i] = 0 THEN Err("NonMinimalVarInt")
                ELSE Ok(Saturated, b.rest))
        ELSE Ok(m.val[1], m.rest))

\* Vec<u8> / Script: compact-size length, then the bytes
Script_consensus_encode(s) == write_compact_size(Len(s)) \o s

Script_consensus_decode(r) ==
    Let(VarInt_consensus_decode(r), LAMBDA n :
        IF ~n.ok THEN n
        ELSE IF n.val > MAX_VEC_SIZE THEN Err("OversizedVectorAllocation")
        ELSE [read_exact(n.rest, n.val) EXCEPT !.alloc = n.val])

TxOut_consensus_encode(o) ==
    wide_consensus_encode(o.value) \o Script_consensus_encode(o.script_pubkey)

\* an element of a vector: the fields alone, no payload type
TxOut_consensus_decode(r) ==
    LET f1 == Field(Ok(<<>>, r), "value", LAMBDA a : wide_consensus_decode(a.rest, 8))
    IN Field(f1, "script_pubkey", LAMBDA a : Script_consensus_decode(a.rest))

OutPoint_consensus_encode(o) ==
    array_consensus_encode(o.txid) \o u32_consensus_encode(o.vout)

OutPoint_consensus_decode(r) ==
    LET f1 == Field(Ok(<<>>, r), "txid", LAMBDA a : array_consensus_decode(a.rest, HASH_LEN))
    IN Field(f1, "vout", LAMBDA a : u32_consensus_decode(a.rest))

RECURSIVE TxOutVec_encode_elems(_)
TxOutVec_encode_elems(v) ==
    IF v = <<>> THEN <<>>
    ELSE TxOut_consensus_encode(Head(v)) \o TxOutVec_encode_elems(Tail(v))

RECURSIVE OutPointVec_encode_elems(_)
OutPointVec_encode_elems(v) ==
    IF v = <<>> THEN <<>>
    ELSE OutPoint_consensus_encode(Head(v)) \o OutPointVec_encode_elems(Tail(v))

TxOutVec_consensus_encode(v) ==
    write_compact_size(Len(v)) \o TxOutVec_encode_elems(v)

OutPointVec_consensus_encode(v) ==
    write_compact_size(Len(v)) \o OutPointVec_encode_elems(v)

RECURSIVE TxOutVec_decode_elems(_, _)
TxOutVec_decode_elems(r, n) ==
    IF n = 0 THEN Ok(<<>>, r)
    ELSE Let(TxOut_consensus_decode(r), LAMBDA e :
         IF ~e.ok THEN e
         ELSE Let(TxOutVec_decode_elems(e.rest, n - 1), LAMBDA t :
              IF ~t.ok THEN t ELSE Ok(<<e.val>> \o t.val, t.rest)))

RECURSIVE OutPointVec_decode_elems(_, _)
OutPointVec_decode_elems(r, n) ==
    IF n = 0 THEN Ok(<<>>, r)
    ELSE Let(OutPoint_consensus_decode(r), LAMBDA e :
         IF ~e.ok THEN e
         ELSE Let(OutPointVec_decode_elems(e.rest, n - 1), LAMBDA t :
              IF ~t.ok THEN t ELSE Ok(<<e.val>> \o t.val, t.rest)))

\* Vec<T>: a declared count above the maximum is refused before any
\* storage is reserved
TxOutVec_consensus_decode(r) ==
    Let(VarInt_consensus_decode(r), LAMBDA n :
        IF ~n.ok THEN n
        ELSE IF n.val > MAX_VEC_SIZE THEN Err("OversizedVectorAllocation")
        ELSE [TxOutVec_decode_elems(n.rest, n.val) EXCEPT !.alloc = n.val])

OutPointVec_consensus_decode(r) ==
    Let(VarInt_consensus_decode(r), LAMBDA n :
        IF ~n.ok THEN n
        ELSE IF n.val > MAX_VEC_SIZE THEN Err("OversizedVectorAllocation")
        ELSE [OutPointVec_decode_elems(n.rest, n.val) EXCEPT !.alloc = n.val])

\* ------------------------------------------------------------------------
\* AssetLockPayload
\* ------------------------------------------------------------------------

AL_consensus_encode(v) ==
    LET w1 == Emit(NothingWritten, Written(u8_consensus_encode(v.version)))
        w2 == Emit(w1, Written(u8_consensus_encode(v.count)))
    IN Emit(w2, Written(TxOutVec_consensus_encode(v.credit_outputs)))

AL_consensus_decode(r) ==
    LET f1 == Field(Start("AL", r), "version", LAMBDA a : u8_consensus_decode(a.rest))
        f2 == Field(f1, "count", LAMBDA a : u8_consensus_decode(a.rest))
    IN Field(f2, "credit_outputs", LAMBDA a : TxOutVec_consensus_decode(a.rest))

\* ------------------------------------------------------------------------
\* ProviderUpdateServicePayload
\* ------------------------------------------------------------------------

PUS_base_payload_data_encode(v) ==
    LET w1 == Emit(NothingWritten, Written(u16_consensus_encode(v.version)))
        w2 == Emit(w1, Written(array_consensus_encode(v.pro_tx_hash)))
        w3 == Emit(w2, Written(wide_consensus_encode(v.ip_address)))
        w4 == Emit(w3, Written(u16_consensus_encode(u16_from_be(v.port))))
        w5 == Emit(w4, Written(Script_consensus_encode(v.script_payout)))
    IN Emit(w5, Written(array_consensus_encode(v.inputs_hash)))

\* the hash engine: a stand-in for the double SHA-256 of the bytes fed to
\* it, a polynomial digest of bytes[lo..hi] computed by halves; p is the
\* weight of the range
RECURSIVE HashEngine(_, _, _)
HashEngine(bytes, lo, hi) ==
    IF lo > hi THEN [h |-> 0, p |-> 1]
    ELSE IF lo = hi THEN [h |-> (bytes[lo] + 1) % HashModulus, p |-> 257]
    ELSE LET mid == (lo + hi) \div 2
             l == HashEngine(bytes, lo, mid)
             r == HashEngine(bytes, mid + 1, hi)
         IN [h |-> (l.h * r.p + r.h) % HashModulus, p |-> (l.p * r.p) % HashModulus]

\* a digest fed the signature as well
PUS_hash_with_sig(v) ==
    LET engine == PUS_base_payload_data_encode(v).bytes \o v.payload_sig
    IN HashEngine(engine, 1, Len(engine)).h

\* the engine takes every byte ("engines don't error"); the digest is asked
\* for after an encoding the writer took in full, so the base fields fit
PUS_base_payload_hash(v) ==
    LET engine == PUS_base_payload_data_encode(v).bytes
    IN HashEngine(engine, 1, Len(engine)).h

\* an encoder that writes the signature ahead of the base fields
PUS_consensus_encode_sig_first(v) ==
    LET w1 == Emit(NothingWritten, Written(array_consensus_encode(v.payload_sig)))
    IN Emit(w1, PUS_base_payload_data_encode(v))

PUS_consensus_encode(v) ==
    LET w1 == Emit(NothingWritten, PUS_base_payload_data_encode(v))
    IN Emit(w1, Written(array_consensus_encode(v.payload_sig)))

\* a port taken as the little-endian u16 read, with no conversion
PUS_decode_port_unswapped(r) == u16_consensus_decode(r)

\* u16::from_be(u16::consensus_decode(d)?)
PUS_decode_port(r) ==
    Let(u16_consensus_decode(r), LAMBDA p :
        IF ~p.ok THEN p ELSE Ok(u16_from_be(p.val), p.rest))

PUS_consensus_decode(r) ==
    LET f1 == Field(Start("PUS", r), "version", LAMBDA a : u16_consensus_decode(a.rest))
        f2 == Field(f1, "pro_tx_hash", LAMBDA a : array_consensus_decode(a.rest, HASH_LEN))
        f3 == Field(f2, "ip_address", LAMBDA a : wide_consensus_decode(a.rest, 16))
        f4 == Field(f3, "port", LAMBDA a : PUS_decode_port(a.rest))
        f5 == Field(f4, "script_payout", LAMBDA a : Script_consensus_decode(a.rest))
        f6 == Field(f5, "inputs_hash", LAMBDA a : array_consensus_decode(a.rest, HASH_LEN))
    IN Field(f6, "payload_sig", LAMBDA a : array_consensus_decode(a.rest, BLS_SIG_LEN))

\* ------------------------------------------------------------------------
\* InstantLock
\* ------------------------------------------------------------------------

\* an encoder that writes the cycle hash before the transaction id
IL_consensus_encode_reordered(v) ==
    LET w1 == Emit(NothingWritten, Written(u8_consensus_encode(v.version)))
        w2 == Emit(w1, Written(OutPointVec_consensus_encode(v.inputs)))
        w3 == Emit(w2, Written(array_consensus_encode(v.cyclehash)))
        w4 == Emit(w3, Written(array_consensus_encode(v.txid)))
    IN Emit(w4, Written(array_consensus_encode(v.signature)))

IL_consensus_encode(v) ==
    LET w1 == Emit(NothingWritten, Written(u8_consensus_encode(v.version)))
        w2 == Emit(w1, Written(OutPointVec_consensus_encode(v.inputs)))
        w3 == Emit(w2, Written(array_consensus_encode(v.txid)))
        w4 == Emit(w3, Written(array_consensus_encode(v.cyclehash)))
    IN Emit(w4, Written(array_consensus_encode(v.signature)))

\* d.take(MAX_VEC_SIZE): the reader ends after that many bytes
IL_consensus_decode(r) ==
    LET f1 == Field(Start("IL", Take(r, MAX_VEC_SIZE)), "version",
                    LAMBDA a : u8_consensus_decode(a.rest))
        f2 == Field(f1, "inputs", LAMBDA a : OutPointVec_consensus_decode(a.rest))
        f3 == Field(f2, "txid", LAMBDA a : array_consensus_decode(a.rest, HASH_LEN))
        f4 == Field(f3, "cyclehash", LAMBDA a : array_consensus_decode(a.rest, HASH_LEN))
    IN Field(f4, "signature", LAMBDA a : array_consensus_decode(a.rest, BLS_SIG_LEN))

\* ------------------------------------------------------------------------
\* Dispatch on the payload type
\* ------------------------------------------------------------------------

\* a wrapper written as a byte vector, its length first
BLS_consensus_encode_prefixed(v) ==
    Emit(NothingWritten, Written(Script_consensus_encode(v.bytes)))

\* impl_elementencode!(BLSPublicKey, 48) and (BLSSignature, 96): the
\* wrapper encodes as the array it holds, and is made of the array decoded
BLS_consensus_encode(v) ==
    Emit(NothingWritten, Written(array_consensus_encode(v.bytes)))

BLS_consensus_decode(t, n, r) ==
    Field(Start(t, r), "bytes", LAMBDA a : array_consensus_decode(a.rest, n))

\* The codec of a value by its type: the five payloads, the two crypto
\* wrappers, and the two primitives the commitment calls directly, a
\* compact-size count and a count-prefixed bitset.
consensus_encode(v) ==
    CASE v.type = "QFC" -> QFC_consensus_encode(v)
      [] v.type = "QCP" -> QCP_consensus_encode(v)
      [] v.type = "AL" -> AL_consensus_encode(v)
      [] v.type = "PUS" -> PUS_consensus_encode(v)
      [] v.type = "IL" -> IL_consensus_encode(v)
      [] v.type = "BLSPublicKey" -> BLS_consensus_encode(v)
      [] v.type = "BLSSignature" -> BLS_consensus_encode(v)
      [] v.type = "CompactSize" ->
            Emit(NothingWritten, Written(write_compact_size(v.value)))
      [] v.type = "Bitset" -> QFC_encode_bitset(v.bits)

consensus_decode(t, r) ==
    CASE t = "QFC" -> QFC_consensus_decode(r)
      [] t = "QCP" -> QCP_consensus_decode(r)
      [] t = "AL" -> AL_consensus_decode(r)
      [] t = "PUS" -> PUS_consensus_decode(r)
      [] t = "IL" -> IL_consensus_decode(r)
      [] t = "BLSPublicKey" -> BLS_consensus_decode(t, BLS_PK_LEN, r)
      [] t = "BLSSignature" -> BLS_consensus_decode(t, BLS_SIG_LEN, r)
      [] t = "CompactSize" ->
            Field(Start(t, r), "value", LAMBDA a : read_compact_size(a.rest))
      [] t = "Bitset" ->
            Field(Start(t, r), "bits", LAMBDA a : QFC_decode_bitset(a.rest))

\* the special-transaction types of the three payloads the envelope carries
PROVIDER_UPDATE_SERVICE == 2
QUORUM_COMMITMENT == 6
ASSET_LOCK == 8

\* a dispatch that takes an unknown type for an asset lock if the bytes
\* decode as one
TransactionPayload_decode_sniffing(t, r) ==
    CASE t = PROVIDER_UPDATE_SERVICE -> PUS_consensus_decode(r)
      [] t = QUORUM_COMMITMENT -> QCP_consensus_decode(r)
      [] t = ASSET_LOCK -> AL_consensus_decode(r)
      [] OTHER -> Let(AL_consensus_decode(r), LAMBDA a :
                      IF a.ok THEN a ELSE Err("UnsupportedVersion"))

\* TransactionPayload: the decoder of the variant the declared type names,
\* an error for a type that names none
TransactionPayload_decode(t, r) ==
    CASE t = PROVIDER_UPDATE_SERVICE -> PUS_consensus_decode(r)
      [] t = QUORUM_COMMITMENT -> QCP_consensus_decode(r)
      [] t = ASSET_LOCK -> AL_consensus_decode(r)
      [] OTHER -> Err("UnsupportedVersion")

size(v) ==
    CASE v.type = "QFC" -> QFC_size(v)
      [] v.type = "QCP" -> QCP_size(v)
      [] v.type = "CompactSize" -> compact_size_len(v.value)
      [] v.type = "Bitset" -> QFC_bitset_size(v.bits)

\* ------------------------------------------------------------------------
\* Inputs
\* ------------------------------------------------------------------------

\* n bytes, all different from their neighbours, starting after `seed`
Fill(n, seed) == [i \in 1..n |-> (seed + i) % 256]

AllFalse(n) == [i \in 1..n |-> FALSE]
Alternating(n) == [i \in 1..n |-> i % 2 = 1]

Bitsets == {Alternating(0), Alternating(1), Alternating(9), AllFalse(MaxBits)}

Versions == 1..4
Indexes == {None, Some(-2)}

QFC(version, index, signers, valid_members) ==
    [type |-> "QFC",
     version |-> version,
     llmq_type |-> 100,
     quorum_hash |-> Fill(HASH_LEN, 0),
     quorum_index |-> index,
     signers |-> signers,
     valid_members |-> valid_members,
     quorum_public_key |-> Fill(BLS_PK_LEN, 32),
     quorum_vvec_hash |-> Fill(HASH_LEN, 80),
     quorum_sig |-> Fill(BLS_SIG_LEN, 112),
     sig |-> Fill(BLS_SIG_LEN, 0)]

\* the two commitments of tests::size
TestQFC1 == QFC(1, None, <<TRUE, FALSE, TRUE, TRUE, FALSE>>, <<FALSE, TRUE, FALSE, TRUE>>)
TestQFC2 == QFC(2, Some(1), <<TRUE, FALSE, TRUE, TRUE, FALSE, TRUE, FALSE>>,
                <<FALSE, TRUE, FALSE, TRUE, FALSE, TRUE>>)

QFCValues ==
    {QFC(v, i, s, m) : v \in Versions, i \in Indexes, s \in Bitsets, m \in Bitsets}
    \cup {TestQFC1, TestQFC2}

QCPValues ==
    {[type |-> "QCP", version |-> 1, height |-> h, finalization_commitment |-> f] :
        h \in {0, 70000},
        f \in {TestQFC1, TestQFC2, QFC(3, Some(-2), AllFalse(MaxBits), Alternating(9)),
               QFC(2, None, Alternating(0), AllFalse(MaxBits))}}

TxOut1 == [value |-> <<0, 34, 14, 67, 0, 0, 0, 0>>, script_pubkey |-> <<118, 169, 20>>]
TxOut2 == [value |-> <<1, 0, 0, 0, 0, 0, 0, 128>>, script_pubkey |-> <<>>]

ALValues ==
    [type : {"AL"}, version : {1}, count : 0..2,
     credit_outputs : {<<>>, <<TxOut1>>, <<TxOut1, TxOut2>>}]

\* ::ffff:52.36.64.148, as the limbs of the u128
TestIp == <<0, 0, 0, 0, 0, 0, 0, 0, 0, 0, 255, 255, 52, 36, 64, 148>>

PayloadSigs == {Fill(BLS_SIG_LEN, 7), Fill(BLS_SIG_LEN, 100)}

PUSValues ==
    [type : {"PUS"}, version : {1}, pro_tx_hash : {Fill(HASH_LEN, 16)},
     ip_address : {TestIp}, port : {0, 80, 19999, 65280, 65535},
     script_payout : {<<>>, <<81, 82, 83>>, Fill(253, 0)},
     inputs_hash : {Fill(HASH_LEN, 200)}, payload_sig : PayloadSigs]

OutPoint1 == [txid |-> Fill(HASH_LEN, 40), vout |-> 0]
OutPoint2 == [txid |-> Fill(HASH_LEN, 90), vout |-> 65537]

ILValues ==
    [type : {"IL"}, version : {1},
     inputs : {<<>>, <<OutPoint1>>, <<OutPoint1, OutPoint2>>},
     txid : {Fill(HASH_LEN, 5)}, cyclehash : {Fill(HASH_LEN, 150)},
     signature : {Fill(BLS_SIG_LEN, 60)}]

\* counts on both sides of every width of the compact size, up to the
\* largest count the model holds
Counts ==
    {0, 1, 252, 253, 254, 255, 256, 65535, 65536, 65537, 4000000, 4000001,
     16777216, Saturated}

CountValues == [type : {"CompactSize"}, value : Counts]

AllTrue(n) == [i \in 1..n |-> TRUE]
EveryThird(n) == [i \in 1..n |-> i % 3 = 0]

\* boolean sequences of every length up to MaxPacked
BitsetValues ==
    {[type |-> "Bitset", bits |-> b] :
        b \in {Alternating(n) : n \in 0..MaxPacked}
               \cup {AllTrue(n) : n \in 0..MaxPacked}
               \cup {EveryThird(n) : n \in 0..MaxPacked}}

BLSValues ==
    {[type |-> "BLSPublicKey", bytes |-> Fill(BLS_PK_LEN, s)] : s \in {0, 200}}
    \cup {[type |-> "BLSSignature", bytes |-> Fill(BLS_SIG_LEN, s)] : s \in {0, 200}}

PayloadValues == QFCValues \cup QCPValues \cup ALValues \cup PUSValues \cup ILValues

Values == PayloadValues \cup BLSValues \cup CountValues \cup BitsetValues

NoValue == [type |-> "none"]

\* ---- byte strings that no encoder need have written ----

\* compact-size prefixes: minimal, non-minimal, at the maximum, above it
\* (4000001 and 2^32)
CountPrefixes ==
    {<<0>>, <<3>>, <<9>>, <<253, 3, 0>>, <<254, 0, 9, 61, 0>>, <<254, 1, 9, 61, 0>>,
     <<255, 0, 0, 0, 0, 1, 0, 0, 0>>}

BitsetBytes == {<<>>, <<5>>, <<255>>, <<85, 1>>, <<85, 255>>}

QFCTail ==
    Fill(BLS_PK_LEN, 32) \o Fill(HASH_LEN, 80) \o Fill(BLS_SIG_LEN, 112)
    \o Fill(BLS_SIG_LEN, 0)

QFCWires ==
    {u16_consensus_encode(v) \o <<100>> \o Fill(HASH_LEN, 0) \o x \o p1 \o b1 \o p2 \o b2 \o t :
        v \in Versions, x \in {<<>>, <<254, 255>>},
        p1 \in CountPrefixes, b1 \in BitsetBytes,
        p2 \in {<<0>>, <<3>>, <<254, 1, 9, 61, 0>>}, b2 \in {<<>>, <<242>>},
        t \in {<<>>, QFCTail}}

ILWires ==
    {<<1>> \o p \o e \o t :
        p \in CountPrefixes \cup {<<1>>, <<253, 1, 0>>},
        e \in {<<>>, Fill(HASH_LEN, 40) \o <<0, 0, 0, 0>>},
        t \in {<<>>, Fill(HASH_LEN, 5) \o Fill(HASH_LEN, 150) \o Fill(BLS_SIG_LEN, 60)}}

ALWires ==
    {<<1, c>> \o p \o e :
        c \in {0, 1, 5}, p \in {<<0>>, <<1>>, <<253, 1, 0>>, <<254, 1, 9, 61, 0>>},
        e \in {<<>>, TxOut_consensus_encode(TxOut1)}}

\* streams shorter than, as long as, and longer than a wrapper
BLSWires == {Fill(n, 9) : n \in {0, 1, 47, 48, 49, 95, 96, 97, 120}}

Wires(t) ==
    CASE t = "QFC" -> QFCWires
      [] t = "IL" -> ILWires
      [] t = "AL" -> ALWires
      [] t = "BLSPublicKey" -> BLSWires
      [] t = "BLSSignature" -> BLSWires

NoResult == Err("none")

\* room of the slices an encoder is handed: none, less than a fixed head,
\* less than any encoding, and enough for the test commitments
SliceRooms == {0, 2, 35, 150, 312}

Writers == {VecWriter} \cup {SliceWriter(n) : n \in SliceRooms}

\* the types an envelope may declare: the classical transaction, the
\* special transactions, and types no variant answers to
TxTypes == 0..10

\* ------------------------------------------------------------------------
\* The codec as a state machine
\* ------------------------------------------------------------------------

\* Either a caller constructs a value, or bytes arrive for a payload type.
\* The build target is drawn where the code reads it (the port conversion).
Init ==
    /\ \/ /\ val \in Values
          /\ tag = val.type
          /\ wire = <<>>
          /\ writer \in (IF val \in PayloadValues THEN Writers ELSE {VecWriter})
       \/ /\ val = NoValue
          /\ tag \in {"QFC", "IL", "AL", "BLSPublicKey", "BLSSignature"}
          /\ wire \in Wires(tag)
          /\ writer = VecWriter
    /\ big_endian_target \in (IF tag = "PUS" THEN BOOLEAN ELSE {FALSE})
    /\ tx_type = 0
    /\ out = NothingWritten
    /\ dec = NoResult
    /\ sz = -1
    /\ digest = -1
    /\ op = "init"

\* consensus_encode(val, writer); the bytes of a successful encoding are
\* what a decoder is handed next
Encode ==
    /\ op = "init"
    /\ val # NoValue
    /\ out' = consensus_encode(val)
    /\ wire' = IF out'.ok THEN out'.bytes ELSE wire
    /\ op' = IF out'.ok THEN "encode" ELSE "encode_failed"
    /\ UNCHANGED <<big_endian_target, writer, tag, tx_type, val, dec, sz, digest>>

\* val.size()
Size ==
    /\ op = "encode"
    /\ tag \in {"QFC", "QCP", "CompactSize", "Bitset"}
    /\ sz' = size(val)
    /\ op' = "size"
    /\ UNCHANGED <<big_endian_target, writer, tag, tx_type, val, wire, out, dec, digest>>

\* val.base_payload_hash(), any number of times
BasePayloadHash ==
    /\ op \in {"encode", "hash"}
    /\ tag = "PUS"
    /\ digest' = PUS_base_payload_hash(val)
    /\ op' = "hash"
    /\ UNCHANGED <<big_endian_target, writer, tag, tx_type, val, wire, out, dec, sz>>

\* consensus_decode of the whole stream
Decode ==
    /\ \/ op = "encode"
       \/ op = "init" /\ val = NoValue
    /\ dec' = consensus_decode(tag, wire)
    /\ op' = "decode"
    /\ UNCHANGED <<big_endian_target, writer, tag, tx_type, val, wire, out, sz, digest>>

\* consensus_decode of a stream that ends after k bytes of an encoding
DecodeTruncated ==
    /\ op = "encode"
    /\ \E k \in 0..(Len(wire) - 1) :
          /\ wire' = Take(wire, k)
          /\ dec' = consensus_decode(tag, wire')
    /\ op' = "decode_truncated"
    /\ UNCHANGED <<big_endian_target, writer, tag, tx_type, val, out, sz, digest>>

\* the envelope's decoder hands the payload bytes to the dispatch with the
\* type it declared, whatever the bytes are
DecodePayload ==
    /\ \/ op = "encode" /\ val \in PayloadValues
       \/ op = "init" /\ val = NoValue /\ tag \in {"AL", "IL"}
    /\ \E t \in TxTypes :
          /\ tx_type' = t
          /\ dec' = TransactionPayload_decode(t, wire)
    /\ op' = "decode_payload"
    /\ UNCHANGED <<big_endian_target, writer, tag, val, wire, out, sz, digest>>

\* consensus_encode of the value decode returned
ReEncode ==
    /\ op = "decode"
    /\ dec.ok
    /\ out' = consensus_encode(dec.val)
    /\ op' = "reencode"
    /\ UNCHANGED <<big_endian_target, writer, tag, tx_type, val, wire, dec, sz, digest>>

Next ==
    \/ Encode
    \/ Size
    \/ BasePayloadHash
    \/ Decode
    \/ DecodeTruncated
    \/ DecodePayload
    \/ ReEncode

Spec == Init /\ [][Next]_vars

\* ------------------------------------------------------------------------
\* Properties
\* ------------------------------------------------------------------------

HasIndex(version) == version \in {2, 4}
Consistent(v) == is_some(v.quorum_index) <=> HasIndex(v.version)

\* what follows the optional index in the encoding of a commitment
QFCBody(v) ==
    write_compact_size(Len(v.signers)) \o write_fixed_bitset(v.signers, Len(v.signers))
    \o write_compact_size(Len(v.valid_members))
    \o write_fixed_bitset(v.valid_members, Len(v.valid_members))
    \o v.quorum_public_key \o v.quorum_vvec_hash \o v.quorum_sig \o v.sig

\* width of version, llmq_type and quorum_hash
QFCHead == 2 + 1 + HASH_LEN

Decoded == op \in {"decode", "decode_truncated"}

\* C1: size() of a commitment, and of a commitment payload, is the number
\* of bytes consensus_encode writes for it, whatever the lengths of signers
\* and valid_members; the payload's size is 6 more than its commitment's.
C1_SizeLaw ==
    op = "size" =>
        /\ sz = Len(out.bytes)
        /\ tag = "QCP" => sz = 6 + QFC_size(val.finalization_commitment)

\* C2 as stated: decoding the encoding of any constructed commitment
\* succeeds and returns the commitment.
C2_RoundTripAnyValue ==
    (op = "decode" /\ tag = "QFC" /\ val # NoValue) => (dec.ok /\ dec.val = val)

\* C2 as amended: decoding the encoding of a commitment whose quorum_index
\* is Some exactly when its version is 2 or 4, and whose bitsets are no
\* longer than the decode maximum, consumes the whole encoding and returns
\* the commitment.
C2_RoundTrip ==
    (/\ op = "decode" /\ tag = "QFC" /\ val # NoValue
     /\ Consistent(val)
     /\ Len(val.signers) <= MAX_VEC_SIZE /\ Len(val.valid_members) <= MAX_VEC_SIZE)
    => (dec.ok /\ dec.val = val /\ dec.rest = <<>>)

C2_Witness ==
    /\ op = "decode" /\ tag = "QFC" /\ val # NoValue
    /\ val.version = 4 /\ val.quorum_index = Some(-2)
    /\ Len(val.signers) = 9 /\ Len(val.valid_members) = 1
    /\ dec.ok /\ dec.val = val

\* C3: the bytes consensus_encode writes for a commitment hold the 2-byte
\* quorum_index right after quorum_hash exactly when the version is 2 or 4,
\* the predicate consensus_decode uses, for every in-memory value.
C3_IndexPresence ==
    (op = "encode" /\ tag = "QFC") =>
        IF HasIndex(val.version)
        THEN Len(out.bytes) = QFCHead + 2 + Len(QFCBody(val))
             /\ Drop(out.bytes, QFCHead + 2) = QFCBody(val)
        ELSE Drop(out.bytes, QFCHead) = QFCBody(val)

\* the little-endian i16 held by two bytes
I16Of(lo, hi) == IF lo + 256 * hi >= 32768 THEN lo + 256 * hi - 65536 ELSE lo + 256 * hi

\* C4: a successful consensus_decode of a commitment whose version is not
\* 2 or 4 returns quorum_index = None and took the signers count from the
\* bytes right after quorum_hash; with version 2 or 4 it returns Some of the
\* little-endian i16 in the two bytes after quorum_hash and took the signers
\* count from the bytes after these.
C4_VersionGating ==
    (Decoded /\ tag = "QFC" /\ dec.ok) =>
        LET version == wire[1] + 256 * wire[2] IN
        /\ dec.val.version = version
        /\ IF HasIndex(version)
           THEN /\ dec.val.quorum_index = Some(I16Of(wire[QFCHead + 1], wire[QFCHead + 2]))
                /\ Len(dec.val.signers) = read_compact_size(Drop(wire, QFCHead + 2)).val
           ELSE /\ dec.val.quorum_index = None
                /\ Len(dec.val.signers) = read_compact_size(Drop(wire, QFCHead)).val

C4_Witness ==
    /\ op = "decode" /\ tag = "QFC" /\ val = NoValue /\ dec.ok
    /\ dec.val.version = 4 /\ dec.val.quorum_index = Some(-2)
    /\ Len(dec.val.signers) = 9

\* C5: encoding the value a successful decode returned writes exactly the
\* bytes decode consumed, whatever the padding bits and the compact-size
\* prefixes of the bytes were.
C5_CanonicalReencoding ==
    op = "reencode" => out.bytes = Take(wire, Len(wire) - Len(dec.rest))

\* C6: the count of a decoded AssetLockPayload is the number of its
\* credit_outputs.
C6_CountIsLength ==
    (Decoded /\ tag = "AL" /\ dec.ok) => dec.val.count = Len(dec.val.credit_outputs)

\* offset of the port in an encoded ProviderUpdateServicePayload, after
\* version, pro_tx_hash and ip_address
PortOffset == 2 + HASH_LEN + 16

\* C7: the two port bytes on the wire are the high byte of the stored port
\* followed by its low byte, and decode rebuilds the port from the two wire
\* bytes in that order.
C7_PortNetworkOrder ==
    /\ (op = "encode" /\ tag = "PUS") =>
          /\ out.bytes[PortOffset + 1] = val.port \div 256
          /\ out.bytes[PortOffset + 2] = val.port % 256
    /\ (Decoded /\ tag = "PUS" /\ dec.ok) =>
          dec.val.port = 256 * wire[PortOffset + 1] + wire[PortOffset + 2]

\* C8: the digest base_payload_hash returned is the digest of every payload
\* that differs from the hashed one in payload_sig alone.
C8_HashIgnoresSignature ==
    (op = "hash") =>
        \A s \in PayloadSigs : PUS_base_payload_hash([val EXCEPT !.payload_sig = s]) = digest

C8_Witness ==
    /\ op = "hash" /\ digest >= 0
    /\ val.payload_sig = Fill(BLS_SIG_LEN, 100) /\ val.script_payout # <<>>

\* the count the compact size at the head of r declares, -1 if there is none
Declared(r) == Let(read_compact_size(r), LAMBDA c : IF c.ok THEN c.val ELSE -1)

\* the bytes of a commitment from its signers count on
QFCCounts(w) ==
    Drop(w, IF HasIndex(w[1] + 256 * w[2]) THEN QFCHead + 2 ELSE QFCHead)

\* the bytes of a commitment from its valid_members count on
QFCSecondCount(w) ==
    Let(read_compact_size(QFCCounts(w)), LAMBDA c : Drop(c.rest, (c.val + 7) \div 8))

\* some count of the stream is above the maximum
Hostile ==
    \/ /\ tag = "QFC" /\ Len(wire) >= QFCHead + 2
       /\ \/ Declared(QFCCounts(wire)) > MAX_VEC_SIZE
          \/ /\ Declared(QFCCounts(wire)) \in 0..MAX_VEC_SIZE
             /\ Declared(QFCSecondCount(wire)) > MAX_VEC_SIZE
    \/ tag = "IL" /\ Declared(Drop(wire, 1)) > MAX_VEC_SIZE

\* C9: decoding a commitment or an InstantLock whose declared bitset or
\* input count is above the maximum fails as oversized, whatever follows
\* the count, with no storage reserved for more than the maximum.
C9_HostileCount ==
    (op = "decode" /\ Hostile) =>
        (~dec.ok /\ dec.err = "OversizedVectorAllocation" /\ dec.alloc <= MAX_VEC_SIZE)

C9_Witness ==
    /\ op = "decode" /\ tag = "QFC" /\ Hostile
    /\ Declared(QFCCounts(wire)) = 9
    /\ ~dec.ok /\ dec.alloc = 9

\* C10: decoding a proper prefix of the encoding of a payload is an error
\* for the exhausted stream, never a value.
C10_FailFast ==
    op = "decode_truncated" => (~dec.ok /\ dec.err = "Io")

Encoded == op \in {"encode", "encode_failed", "reencode"}

\* C11: consensus_encode of any value of the five payload types into a
\* writer that accepts every write returns Ok, and when consensus_encode
\* returns an error it is the error of the writer, which is full and
\* refused a write.
C11_EncodeFailsOnlyOnWriter ==
    Encoded =>
        /\ ~writer.limited => out.ok
        /\ ~out.ok => /\ writer.limited
                      /\ out.err = "WriteZero"
                      /\ Len(out.bytes) = writer.room

\* a version 2 commitment without an index, encoded into a Vec
C11_Witness ==
    /\ op = "encode" /\ ~writer.limited /\ tag = "QFC"
    /\ val.version = 2 /\ val.quorum_index = None
    /\ out.ok /\ out.len = Len(out.bytes)

\* the count a commitment writes before its signers
SignersPrefix(v, bytes) ==
    Take(Drop(bytes, IF HasIndex(v.version) /\ is_some(v.quorum_index)
                     THEN QFCHead + 2 ELSE QFCHead),
         compact_size_len(Len(v.signers)))

\* the minimal-width form of the count n
MinimalWidth(n) ==
    IF n < 253 THEN <<n>>
    ELSE IF n <= 65535 THEN <<253, n % 256, n \div 256>>
    ELSE <<254, n % 256, (n \div 256) % 256, (n \div 65536) % 256, n \div 16777216>>

C13_BitsetRoundTrip ==
    /\ (tag = "Bitset" /\ op = "encode") =>
          Let(read_fixed_bitset(write_fixed_bitset(val.bits, Len(val.bits)),
                                Len(val.bits)),
              LAMBDA u : u.ok /\ Len(u.val) = Len(val.bits) /\ u.val = val.bits
                         /\ u.rest = <<>>)
    /\ (tag = "Bitset" /\ op = "decode") =>
          (dec.ok /\ dec.val.bits = val.bits /\ dec.rest = <<>>)
    /\ (tag = "Bitset" /\ op = "reencode") =>
          (out.ok /\ out.bytes = wire
           /\ write_fixed_bitset(dec.val.bits, Len(dec.val.bits))
              = write_fixed_bitset(val.bits, Len(val.bits)))

C13_Witness ==
    /\ tag = "Bitset" /\ op = "reencode"
    /\ val.bits = EveryThird(MaxPacked) /\ dec.val.bits = val.bits
    /\ Len(wire) = 3 + (MaxPacked + 7) \div 8

IsBLS == tag \in {"BLSPublicKey", "BLSSignature"}
BLSWidth == IF tag = "BLSPublicKey" THEN BLS_PK_LEN ELSE BLS_SIG_LEN

\* C14: consensus_encode of a BLSPublicKey (N = 48) or BLSSignature
\* (N = 96) writes its N bytes in order and nothing else and returns N;
\* consensus_decode of a stream of at least N bytes returns the wrapper of
\* the first N and leaves the rest unread, and of a shorter stream is an
\* error; decoding an encoding returns the wrapper encoded.
C14_BLSWrappers ==
    IsBLS =>
        /\ op = "encode" =>
              (out.ok /\ out.bytes = val.bytes /\ out.len = BLSWidth
               /\ Len(out.bytes) = BLSWidth)
        /\ Decoded =>
              IF Len(wire) >= BLSWidth
              THEN /\ dec.ok
                   /\ dec.val = [type |-> tag, bytes |-> Take(wire, BLSWidth)]
                   /\ dec.rest = Drop(wire, BLSWidth)
              ELSE ~dec.ok /\ dec.err = "Io"
        /\ (op = "decode" /\ val # NoValue) => (dec.ok /\ dec.val = val)

\* a signature decoded from a stream that goes on after it
C14_Witness ==
    /\ tag = "BLSSignature" /\ op = "decode" /\ val = NoValue
    /\ Len(wire) > BLS_SIG_LEN
    /\ dec.ok /\ Len(dec.val.bytes) = BLS_SIG_LEN /\ Len(dec.rest) = Len(wire) - BLS_SIG_LEN

\* the payload type a declared special-transaction type names
VariantOf(t) ==
    CASE t = PROVIDER_UPDATE_SERVICE -> "PUS"
      [] t = QUORUM_COMMITMENT -> "QCP"
      [] t = ASSET_LOCK -> "AL"
      [] OTHER -> "none"

\* C15: the dispatch returns what the decoder of the variant named by the
\* declared type returns on the stream, whatever payload the bytes were
\* written for, and for a type that names no variant it returns an
\* UnsupportedVersion error and no value.
C15_DispatchByTag ==
    op = "decode_payload" =>
        IF VariantOf(tx_type) = "none"
        THEN ~dec.ok /\ dec.err = "UnsupportedVersion" /\ dec.val = <<>>
        ELSE /\ dec = consensus_decode(VariantOf(tx_type), wire)
             /\ dec.ok => dec.val.type = VariantOf(tx_type)

\* the bytes of an asset lock declared as a type that names no variant
C15_Witness ==
    /\ op = "decode_payload" /\ tag = "AL" /\ AL_consensus_decode(wire).ok
    /\ tx_type = 7 /\ ~dec.ok

Consumed == Len(wire) - Len(dec.rest)

PUSBaseLayout(v) ==
    u16_consensus_encode(v.version) \o v.pro_tx_hash \o v.ip_address
    \o u16_consensus_encode(u16_from_be(v.port))
    \o write_compact_size(Len(v.script_payout)) \o v.script_payout
    \o v.inputs_hash

\* C18: consensus_encode of a ProviderUpdateServicePayload writes what
\* base_payload_data_encode writes (version, pro_tx_hash, ip_address, port,
\* script_payout, inputs_hash) and then the 96 bytes of payload_sig, and
\* base_payload_hash is the digest of the encoding without its last 96
\* bytes.
C18_EncodeIsBaseThenSig ==
    (tag = "PUS" /\ op \in {"encode", "hash"}) =>
        /\ out.bytes = PUS_base_payload_data_encode(val).bytes \o val.payload_sig
        /\ PUS_base_payload_data_encode(val).bytes = PUSBaseLayout(val)
        /\ out.len = PUS_base_payload_data_encode(val).len + BLS_SIG_LEN
        /\ Len(val.payload_sig) = BLS_SIG_LEN
        /\ op = "hash" =>
              digest = HashEngine(out.bytes, 1, Len(out.bytes) - BLS_SIG_LEN).h

C18_Witness ==
    /\ tag = "PUS" /\ op = "hash" /\ Len(val.script_payout) = 3
    /\ Len(out.bytes) = PortOffset + 2 + 4 + HASH_LEN + BLS_SIG_LEN
    /\ digest = HashEngine(out.bytes, 1, PortOffset + 2 + 4 + HASH_LEN).h

\* bytes is a packing of n booleans: ceil(n/8) bytes, no bit set beyond
\* the n-th
IsPackingOf(bytes, n) ==
    /\ Len(bytes) = (n + 7) \div 8
    /\ n = 0 => bytes = <<>>
    /\ n % 8 # 0 => bytes[Len(bytes)] < Pow2(n % 8)

\* the stream opens with the count n in compact size and a packing of n
\* booleans
OpensWithBitset(r, n) ==
    /\ Take(r, compact_size_len(n)) = MinimalWidth(n)
    /\ IsPackingOf(SubSeq(r, compact_size_len(n) + 1,
                          compact_size_len(n) + (n + 7) \div 8), n)

\* the length of the count and the bytes of a bitset of n booleans
BitsetWidth(n) == compact_size_len(n) + (n + 7) \div 8

\* width of quorum_public_key, quorum_vvec_hash, quorum_sig and sig
QFCTailWidth == BLS_PK_LEN + HASH_LEN + BLS_SIG_LEN + BLS_SIG_LEN

\* C19: the packing of n booleans is ceil(n/8) bytes with no bit set
\* beyond the n-th; in the encoding of a commitment the signers lie after
\* the head as their own element count in compact size and their packing,
\* the valid_members right after them as their own element count and
\* their packing, and the four fixed fields follow.
C19_PackAndPrefix ==
    /\ (tag = "Bitset" /\ op = "encode") =>
          /\ OpensWithBitset(out.bytes, Len(val.bits))
          /\ Len(out.bytes) = BitsetWidth(Len(val.bits))
          /\ IsPackingOf(write_fixed_bitset(val.bits, Len(val.bits)), Len(val.bits))
    /\ (tag = "QFC" /\ op = "encode") =>
          LET head == IF HasIndex(val.version) /\ is_some(val.quorum_index)
                      THEN QFCHead + 2 ELSE QFCHead
              n == Len(val.signers)
              m == Len(val.valid_members)
          IN /\ OpensWithBitset(Drop(out.bytes, head), n)
             /\ OpensWithBitset(Drop(out.bytes, head + BitsetWidth(n)), m)
             /\ Len(out.bytes) = head + BitsetWidth(n) + BitsetWidth(m) + QFCTailWidth

\* nine signers in two bytes, one valid member in one
C19_Witness ==
    /\ tag = "QFC" /\ op = "encode" /\ val.version = 1
    /\ Len(val.signers) = 9 /\ Len(val.valid_members) = 1
    /\ SubSeq(out.bytes, QFCHead + 1, QFCHead + 5) = <<9, 85, 1, 1, 1>>

\* C20: a commitment consensus_decode returns, alone or inside a
\* commitment payload, has quorum_index Some exactly when its version is 2
\* or 4; a constructed commitment with that property decodes from its
\* encoding to itself, and so does every commitment a decode returned.
C20_DecodedIndexInvariant ==
    /\ (tag = "QFC" /\ Decoded /\ dec.ok) => Consistent(dec.val)
    /\ (tag = "QCP" /\ Decoded /\ dec.ok) =>
          Consistent(dec.val.finalization_commitment)
    /\ (op = "decode_payload" /\ tx_type = QUORUM_COMMITMENT /\ dec.ok) =>
          Consistent(dec.val.finalization_commitment)
    /\ (tag = "QFC" /\ op = "decode" /\ val # NoValue /\ Consistent(val)) =>
          (dec.ok /\ dec.val = val)
    /\ (tag = "QFC" /\ op = "reencode") =>
          Let(QFC_consensus_decode(out.bytes),
              LAMBDA d : d.ok /\ d.val = dec.val /\ d.rest = <<>>)

\* a version 2 commitment decoded from crafted bytes, encoded and decoded
\* again
C20_Witness ==
    /\ tag = "QFC" /\ op = "reencode" /\ val = NoValue
    /\ dec.val.version = 2 /\ dec.val.quorum_index = Some(-2)
    /\ Len(dec.val.signers) = 9 /\ out.bytes # wire
    /\ QFC_consensus_decode(out.bytes).val = dec.val

\* the sum of the widths of the fields of a commitment, an index that is
\* not written counting 0
QFCFieldWidths(v) ==
    QFCHead
    + (IF HasIndex(v.version) /\ is_some(v.quorum_index) THEN 2 ELSE 0)
    + BitsetWidth(Len(v.signers)) + BitsetWidth(Len(v.valid_members))
    + QFCTailWidth

\* the sum of the widths of the fields of a payload
FieldWidths(v) ==
    CASE v.type = "QFC" -> QFCFieldWidths(v)
      [] v.type = "QCP" -> 2 + 4 + QFCFieldWidths(v.finalization_commitment)
      [] v.type = "AL" -> 1 + 1 + Len(TxOutVec_consensus_encode(v.credit_outputs))
      [] v.type = "PUS" ->
            2 + HASH_LEN + 16 + 2 + compact_size_len(Len(v.script_payout))
            + Len(v.script_payout) + HASH_LEN + BLS_SIG_LEN
      [] v.type = "IL" ->
            1 + compact_size_len(Len(v.inputs)) + Len(v.inputs) * (HASH_LEN + 4)
            + 2 * HASH_LEN + BLS_SIG_LEN

IsPayload == tag \in {"QFC", "QCP", "AL", "PUS", "IL"}

\* C21: the usize consensus_encode returns for a payload of the five types
\* is the number of bytes it wrote into the writer, which is the sum of
\* the widths of its fields (0 for an index that is not written); an
\* encode stopped by a failed write returns no count.
C21_ReturnedCountIsBytesWritten ==
    /\ (IsPayload /\ op = "encode") =>
          (out.ok /\ out.len = Len(out.bytes) /\ out.len = FieldWidths(val))
    /\ (IsPayload /\ op = "reencode" /\ out.ok) =>
          (out.len = Len(out.bytes) /\ out.len = FieldWidths(dec.val))
    /\ (IsPayload /\ op = "encode_failed") =>
          (~out.ok /\ "len" \notin DOMAIN out /\ Len(out.bytes) < FieldWidths(val))
    /\ (IsPayload /\ op = "reencode" /\ ~out.ok) =>
          ("len" \notin DOMAIN out /\ Len(out.bytes) < FieldWidths(dec.val))

\* a commitment payload whose version 2 commitment has no index
C21_Witness ==
    /\ tag = "QCP" /\ op = "encode" /\ ~writer.limited
    /\ val.finalization_commitment.version = 2
    /\ val.finalization_commitment.quorum_index = None
    /\ out.ok /\ out.len = Len(out.bytes)
    /\ out.len = 2 + 4 + QFCHead + 1 + 4 + QFCTailWidth

====
